---- MODULE Spec2Model ----
(***************************************************************************)
(* Model of builder/builder.py (class Builder): indexing of the images,    *)
(* construction of the dependency graph, resolution of the build order,    *)
(* the split into local and remote dependencies, and the pull / build /    *)
(* push phases of Builder.run.                                             *)
(*                                                                         *)
(* builder/dependency.py (Graph, Node, Resolver) and builder/image.py      *)
(* (Image) are imported by builder.py but are not part of the sources at   *)
(* hand; the definitions that stand for them follow spec.md and say so.    *)
(***************************************************************************)
EXTENDS Integers, Sequences, FiniteSets, TLC

\* ------------------------------------------------------------------ bounds

\* Dockerfiles found by one run of index_images.
MaxImages == 2
\* Dependency references (FROM lines) over all Dockerfiles found.
MaxEdges == 2
\* Image names given in config['images'].
MaxSeeds == 1
\* Calls made on one Builder in the specification SpecApi.
MaxCalls == 2

\* The image names of the model.
Names == {"a", "b", "c"}

\* The values config['registries'] takes in the model.
RegistryLists == {<< >>, <<"r1", "r2">>}

\* ------------------------------------------------------------------ helpers

SeqOf(S, n) == UNION {[1..k -> S] : k \in 0..n}

Range(s) == {s[i] : i \in 1..Len(s)}

\* Python's dict, which keeps insertion order: a sequence of [key, value]
\* records with distinct keys. d[key] = value keeps the place of an existing key.
HasKey(d, k) == \E i \in 1..Len(d) : d[i].key = k

Get(d, k) == d[CHOOSE i \in 1..Len(d) : d[i].key = k].value

Put(d, k, v) ==
    IF HasKey(d, k)
    THEN [i \in 1..Len(d) |-> IF d[i].key = k THEN [key |-> k, value |-> v] ELSE d[i]]
    ELSE Append(d, [key |-> k, value |-> v])

Keys(d) == [i \in 1..Len(d) |-> d[i].key]

Values(d) == [i \in 1..Len(d) |-> d[i].value]

\* s without the elements that fail Test, order kept.
RECURSIVE Filter(_, _, _)
Filter(s, Test(_), i) ==
    IF i > Len(s) THEN << >>
    ELSE (IF Test(s[i]) THEN <<s[i]>> ELSE << >>) \o Filter(s, Test, i + 1)

\* ------------------------------------------------------------------ inputs

\* An indexed Image: its name and the names it depends on.
Image == [name : Names, dependencies : SeqOf(Names, MaxEdges)]

\* The lists of at most n Images with at most e dependencies in all.
RECURSIVE Found(_, _)
Found(n, e) ==
    IF n = 0 THEN {<< >>}
    ELSE {<< >>} \cup
         UNION {{<<img>> \o rest : rest \in Found(n - 1, e - Len(img.dependencies))} :
                    img \in [name : Names, dependencies : SeqOf(Names, e)]}

\* What the glob over the configured directories yields, in glob order.
FoundLists == Found(MaxImages, MaxEdges)

\* The configurations a Builder is constructed with.
Configs ==
    [images : SeqOf(Names, MaxSeeds), downstream : BOOLEAN,
     push : BOOLEAN, registries : RegistryLists]

\* ------------------------------------------------------------------ nodes

\* builder.dependency.Node: a name and the Nodes it depends on. Node objects
\* live in objs and are referred to by their index, so that two Nodes of the
\* same name are two objects.
Node(name) == [name |-> name, edges |-> << >>]

\* Node.add_edge: self.edges gets one more reference.
add_edge(objs, ref, target) == [objs EXCEPT ![ref].edges = Append(@, target)]

\* nodes[name] = Node(name): a new object, stored under name.
NewNode(st, name) ==
    [nodes |-> Put(st.nodes, name, Len(st.objs) + 1),
     objs  |-> Append(st.objs, Node(name))]

\* builder.py 110-112: a Node for every dependency that has none yet.
RECURSIVE DependencyNodes(_, _, _)
DependencyNodes(st, deps, j) ==
    IF j > Len(deps) THEN st
    ELSE DependencyNodes(IF HasKey(st.nodes, deps[j]) THEN st ELSE NewNode(st, deps[j]),
                         deps, j + 1)

\* builder.py 107-112: the first loop over the images.
RECURSIVE CreateNodes(_, _, _)
CreateNodes(st, imgs, i) ==
    IF i > Len(imgs) THEN st
    ELSE CreateNodes(DependencyNodes(NewNode(st, imgs[i].name), imgs[i].dependencies, 1),
                     imgs, i + 1)

\* Mutant of ImageEdges: the edge is added to the dependency, towards the image.
RECURSIVE ImageEdgesReversed(_, _, _, _)
ImageEdgesReversed(st, name, deps, j) ==
    IF j > Len(deps) THEN st
    ELSE ImageEdgesReversed(
            [st EXCEPT !.objs = add_edge(@, Get(st.nodes, deps[j]), Get(st.nodes, name))],
            name, deps, j + 1)

\* builder.py 115-116: the edges of one image, in the order of its dependencies.
RECURSIVE ImageEdges(_, _, _, _)
ImageEdges(st, name, deps, j) ==
    IF j > Len(deps) THEN st
    ELSE ImageEdges([st EXCEPT !.objs = add_edge(@, Get(st.nodes, name), Get(st.nodes, deps[j]))],
                    name, deps, j + 1)

\* builder.py 114-116: the second loop over the images.
RECURSIVE AddEdges(_, _, _)
AddEdges(st, imgs, i) ==
    IF i > Len(imgs) THEN st
    ELSE AddEdges(ImageEdges(st, imgs[i].name, imgs[i].dependencies, 1), imgs, i + 1)

\* Graph.create(nodes): the graph's nodes, a dict from name to Node in the order
\* of the list.
RECURSIVE GraphNodes(_, _, _)
GraphNodes(list, objs, i) ==
    IF i > Len(list) THEN << >>
    ELSE LET rest == GraphNodes(list, objs, i + 1)
         IN  IF HasKey(rest, objs[list[i]].name)
             THEN <<[key |-> objs[list[i]].name, value |-> Get(rest, objs[list[i]].name)]>>
                  \o Filter(rest, LAMBDA e : e.key # objs[list[i]].name, 1)
             ELSE <<[key |-> objs[list[i]].name, value |-> list[i]]>> \o rest

Graph_create(list, objs) == [set |-> TRUE, nodes |-> GraphNodes(list, objs, 1), objs |-> objs]

\* self.graph = None
None == [set |-> FALSE, nodes |-> << >>, objs |-> << >>]

\* Mutant of BuildGraph: one loop, in which the edges of an image are added
\* as soon as its Node and the Nodes of its dependencies are there.
RECURSIVE NodesAndEdges(_, _, _)
NodesAndEdges(st, imgs, i) ==
    IF i > Len(imgs) THEN st
    ELSE NodesAndEdges(
            ImageEdges(DependencyNodes(NewNode(st, imgs[i].name), imgs[i].dependencies, 1),
                       imgs[i].name, imgs[i].dependencies, 1),
            imgs, i + 1)

BuildGraphOneLoop(imgs) ==
    LET st == NodesAndEdges([nodes |-> << >>, objs |-> << >>], imgs, 1)
    IN  Graph_create(Values(st.nodes), st.objs)

\* Mutant of BuildGraph: the Nodes are handed to Graph.create last one first.
BuildGraphReversed(imgs) ==
    LET st == AddEdges(CreateNodes([nodes |-> << >>, objs |-> << >>], imgs, 1), imgs, 1)
        list == Values(st.nodes)
    IN  Graph_create([i \in 1..Len(list) |-> list[Len(list) + 1 - i]], st.objs)

\* builder.py 104-118: the graph of the indexed images.
BuildGraph(imgs) ==
    LET st == AddEdges(CreateNodes([nodes |-> << >>, objs |-> << >>], imgs, 1), imgs, 1)
    IN  Graph_create(Values(st.nodes), st.objs)

\* ------------------------------------------------------------------ resolver

\* The answer of a resolution: the order, or the Node at which a cycle closed
\* (cycle = 0: none).
Answer(resolved, cycle) == [resolved |-> resolved, cycle |-> cycle]

\* The depth-first walk: the edges of a Node first, then the Node itself; a
\* Node already emitted is skipped, a Node met while it is on the current path
\* is a cycle.
RECURSIVE ResolveNode(_, _, _, _)
RECURSIVE ResolveEdges(_, _, _, _, _)
ResolveNode(objs, ref, path, ans) ==
    IF ans.cycle # 0 THEN ans
    ELSE IF ref \in Range(ans.resolved) THEN ans
    ELSE IF ref \in Range(path) THEN Answer(ans.resolved, ref)
    ELSE LET below == ResolveEdges(objs, objs[ref].edges, 1, Append(path, ref), ans)
         IN  IF below.cycle # 0 THEN below
             ELSE Answer(Append(below.resolved, ref), 0)

ResolveEdges(objs, edges, j, path, ans) ==
    IF j > Len(edges) THEN ans
    ELSE ResolveEdges(objs, edges, j + 1, path, ResolveNode(objs, edges[j], path, ans))

\* The walk from each Node of a list in turn, with one visited set.
RECURSIVE ResolveList(_, _, _, _)
ResolveList(objs, list, i, ans) ==
    IF i > Len(list) THEN ans
    ELSE ResolveList(objs, list, i + 1, ResolveNode(objs, list[i], << >>, ans))

\* The Nodes of the graph that depend, over one or more edges, on a Node of
\* from: the walk over the reversed edges.
RECURSIVE Dependents(_, _, _)
Dependents(graph, from, found) ==
    LET more == {r \in Range(Values(graph.nodes)) :
                    \E j \in 1..Len(graph.objs[r].edges) :
                        graph.objs[r].edges[j] \in from \cup found}
    IN  IF more \subseteq found THEN found ELSE Dependents(graph, from, found \cup more)

\* Resolver(graph).resolve(): the order of every Node of the graph.
resolve(graph) == ResolveList(graph.objs, Values(graph.nodes), 1, Answer(<< >>, 0))

\* Resolver(graph).resolve_nodes(nodes, downstream): the order of the given
\* Nodes and, with downstream, of the Nodes that depend on them.
resolve_nodes(graph, nodes, downstream) ==
    LET dependents == IF downstream THEN Dependents(graph, Range(nodes), {}) ELSE {}
        list == nodes \o Filter(Values(graph.nodes),
                                LAMBDA r : r \in dependents /\ r \notin Range(nodes), 1)
    IN  ResolveList(graph.objs, list, 1, Answer(<< >>, 0))

\* ------------------------------------------------------------------ state

VARIABLES
    config,                 \* self.config
    images,                 \* self.images: dict from name to Image
    graph,                  \* self.graph
    local_dependencies,     \* self.local_dependencies: list of Nodes
    remote_dependencies,    \* self.remote_dependencies: list of Nodes
    resolved,               \* the list the Resolver returned last
    pc,                     \* where the Builder is in run()
    at,                     \* the position of the running loop: <<dependency, registry>>
    error,                  \* the exception that ended the run or the last call
    ops,                    \* the external operations so far, in order
    calls                   \* calls made on the Builder from outside run()

vars == <<config, images, graph, local_dependencies, remote_dependencies,
          resolved, pc, at, error, ops, calls>>

NoError == [type |-> "none", name |-> ""]

Raised(type, name) == [type |-> type, name |-> name]

\* The name of a Node.
NameOf(ref) == graph.objs[ref].name

NamesOf(list) == [i \in 1..Len(list) |-> NameOf(list[i])]

\* builder.py 13-21: Builder(config).
Init ==
    /\ config \in Configs
    /\ images = << >>
    /\ graph = None
    /\ local_dependencies = << >>
    /\ remote_dependencies = << >>
    /\ resolved = << >>
    /\ pc = "index_images"
    /\ at = <<1, 1>>
    /\ error = NoError
    /\ ops = << >>
    /\ calls = 0

\* ------------------------------------------------------------------ indexing

\* builder.py 56-59: self.images[image.name] = image for every Dockerfile found.
RECURSIVE IndexFound(_, _, _)
IndexFound(imgs, found, i) ==
    IF i > Len(found) THEN imgs
    ELSE IndexFound(Put(imgs, found[i].name, found[i]), found, i + 1)

\* Mutant of index_images: the run goes on when no image was found.
index_images_no_exit ==
    /\ pc = "index_images"
    /\ \E found \in FoundLists : images' = IndexFound(images, found, 1)
    /\ pc' = "build_dependency_graph"
    /\ UNCHANGED <<config, graph, local_dependencies, remote_dependencies,
                   resolved, at, error, ops, calls>>

\* builder.py 44-63. found is what the directories that are directories hold;
\* a path that is no directory is skipped and adds nothing.
index_images ==
    /\ pc = "index_images"
    /\ \E found \in FoundLists :
          /\ images' = IndexFound(images, found, 1)
          /\ IF Len(images') = 0
             THEN /\ pc' = "failed"
                  /\ error' = Raised("SystemExit", "")
             ELSE /\ pc' = "build_dependency_graph"
                  /\ UNCHANGED error
    /\ UNCHANGED <<config, graph, local_dependencies, remote_dependencies,
                   resolved, at, ops, calls>>

\* builder.py 95-120.
build_dependency_graph ==
    /\ pc = "build_dependency_graph"
    /\ graph' = BuildGraph(Values(images))
    /\ pc' = "resolve"
    /\ UNCHANGED <<config, images, local_dependencies, remote_dependencies,
                   resolved, at, error, ops, calls>>

\* ------------------------------------------------------------------ split

\* name in a list of Nodes (builder.py 129, 131: dependency.name not in
\* self.local_dependencies). Python compares the string with each Node of the
\* list; a Node is an object holding a name and edges, it is not a string and
\* is equal to none.
StrEqNode(name, ref) == FALSE

InNodes(name, list) == \E i \in 1..Len(list) : StrEqNode(name, list[i])

\* Mutant of SplitOne: the dependency is put in front of its list.
SplitOneInFront(parts, dependency) ==
    IF HasKey(images, NameOf(dependency)) /\ ~InNodes(NameOf(dependency), parts[1])
    THEN <<<<dependency>> \o parts[1], parts[2]>>
    ELSE IF ~HasKey(images, NameOf(dependency)) /\ ~InNodes(NameOf(dependency), parts[2])
    THEN <<parts[1], <<dependency>> \o parts[2]>>
    ELSE parts

\* builder.py 128-132: one turn of the loop; parts = <<local, remote>>.
SplitOne(parts, dependency) ==
    IF HasKey(images, NameOf(dependency)) /\ ~InNodes(NameOf(dependency), parts[1])
    THEN <<Append(parts[1], dependency), parts[2]>>
    ELSE IF ~HasKey(images, NameOf(dependency)) /\ ~InNodes(NameOf(dependency), parts[2])
    THEN <<parts[1], Append(parts[2], dependency)>>
    ELSE parts

RECURSIVE SplitFrom(_, _, _)
SplitFrom(parts, dependencies, i) ==
    IF i > Len(dependencies) THEN parts
    ELSE SplitFrom(SplitOne(parts, dependencies[i]), dependencies, i + 1)

\* builder.py 122-132.
_split_dependencies(dependencies) ==
    LET parts == SplitFrom(<<local_dependencies, remote_dependencies>>, dependencies, 1)
    IN  /\ local_dependencies' = parts[1]
        /\ remote_dependencies' = parts[2]

\* Mutant of Resolved: the CycleError is swallowed and what was resolved up to
\* it is split.
ResolvedDespiteCycle(ans) ==
    /\ error' = NoError
    /\ resolved' = ans.resolved
    /\ _split_dependencies(ans.resolved)

\* What a call of the Resolver leaves behind: its list split, or its CycleError.
Resolved(ans) ==
    IF ans.cycle # 0
    THEN /\ error' = Raised("CycleError", NameOf(ans.cycle))
         /\ UNCHANGED <<local_dependencies, remote_dependencies, resolved>>
    ELSE /\ error' = NoError
         /\ resolved' = ans.resolved
         /\ _split_dependencies(ans.resolved)

\* builder.py 65-76.
resolve_all_dependencies == Resolved(resolve(graph))

\* builder.py 88: the Nodes of the images, one per name.
RECURSIVE NodesOf(_, _)
NodesOf(names, i) ==
    IF i > Len(names) THEN << >>
    ELSE LET rest == NodesOf(names, i + 1)
         IN  IF names[i] \in Range(Keys(rest))
             THEN <<[key |-> names[i], value |-> Get(rest, names[i])]>>
                  \o Filter(rest, LAMBDA e : e.key # names[i], 1)
             ELSE <<[key |-> names[i], value |-> Get(graph.nodes, names[i])]>> \o rest

\* Mutant of resolve_dependencies: downstream is passed on as True.
resolve_dependencies_downstream(imgs, downstream) ==
    Resolved(resolve_nodes(graph, Values(NodesOf(imgs, 1)), TRUE))

\* builder.py 78-93; imgs are the names of the images given.
resolve_dependencies(imgs, downstream) ==
    Resolved(resolve_nodes(graph, Values(NodesOf(imgs, 1)), downstream))

\* ------------------------------------------------------------------ run

\* Mutant of After: run() builds before it pulls.
AfterBuildFirst(phase, local, remote) ==
    IF phase = "resolve" /\ Len(local) > 0 THEN "build_images"
    ELSE IF phase \in {"resolve", "build_images"} /\ Len(remote) > 0 THEN "pull_remote_images"
    ELSE IF /\ phase \in {"resolve", "pull_remote_images", "build_images"}
            /\ config.push /\ Len(local) > 0 /\ Len(config.registries) > 0
    THEN "push_images"
    ELSE "done"

\* Mutant of After: run() pushes whatever config['core']['push'] says.
AfterAlwaysPush(phase, local, remote) ==
    IF phase = "resolve" /\ Len(remote) > 0 THEN "pull_remote_images"
    ELSE IF phase \in {"resolve", "pull_remote_images"} /\ Len(local) > 0 THEN "build_images"
    ELSE IF /\ phase \in {"resolve", "pull_remote_images", "build_images"}
            /\ Len(local) > 0 /\ Len(config.registries) > 0
    THEN "push_images"
    ELSE "done"

\* The statement of run() that has work to do once the statements up to and
\* including phase are through (builder.py 38-42): a loop over an empty list
\* takes no step.
After(phase, local, remote) ==
    IF phase = "resolve" /\ Len(remote) > 0 THEN "pull_remote_images"
    ELSE IF phase \in {"resolve", "pull_remote_images"} /\ Len(local) > 0 THEN "build_images"
    ELSE IF /\ phase \in {"resolve", "pull_remote_images", "build_images"}
            /\ config.push /\ Len(local) > 0 /\ Len(config.registries) > 0
    THEN "push_images"
    ELSE "done"

\* builder.py 33: the first of the names given that is no key of self.images.
MissingImage ==
    LET i == CHOOSE i \in 1..Len(config.images) :
                /\ ~HasKey(images, config.images[i])
                /\ \A j \in 1..(i - 1) : HasKey(images, config.images[j])
    IN  config.images[i]

\* Mutant of run_resolve: the KeyError of a name that is no indexed image is
\* noted, and all dependencies are resolved instead.
run_resolve_fallback ==
    /\ pc = "resolve"
    /\ IF Len(config.images) > 0
       THEN IF \E i \in 1..Len(config.images) : ~HasKey(images, config.images[i])
            THEN /\ error' = Raised("KeyError", MissingImage)
                 /\ resolved' = resolve(graph).resolved
                 /\ _split_dependencies(resolve(graph).resolved)
                 /\ pc' = After("resolve", local_dependencies', remote_dependencies')
            ELSE /\ resolve_dependencies(config.images, config.downstream)
                 /\ pc' = IF error'.type = "none"
                          THEN After("resolve", local_dependencies', remote_dependencies')
                          ELSE "failed"
       ELSE /\ resolve_all_dependencies
            /\ pc' = IF error'.type = "none"
                     THEN After("resolve", local_dependencies', remote_dependencies')
                     ELSE "failed"
    /\ UNCHANGED <<config, images, graph, at, ops, calls>>

\* Mutant of run_resolve: the names given are looked up in the graph, not in
\* self.images.
run_resolve_by_graph ==
    /\ pc = "resolve"
    /\ IF Len(config.images) > 0
       THEN IF \E i \in 1..Len(config.images) : ~HasKey(graph.nodes, config.images[i])
            THEN /\ error' = Raised("KeyError", "")
                 /\ UNCHANGED <<local_dependencies, remote_dependencies, resolved>>
            ELSE resolve_dependencies(config.images, config.downstream)
       ELSE resolve_all_dependencies
    /\ pc' = IF error'.type = "none"
             THEN After("resolve", local_dependencies', remote_dependencies')
             ELSE "failed"
    /\ UNCHANGED <<config, images, graph, at, ops, calls>>

\* builder.py 31-36.
run_resolve ==
    /\ pc = "resolve"
    /\ IF Len(config.images) > 0
       THEN IF \E i \in 1..Len(config.images) : ~HasKey(images, config.images[i])
            THEN /\ error' = Raised("KeyError", MissingImage)
                 /\ UNCHANGED <<local_dependencies, remote_dependencies, resolved>>
            ELSE resolve_dependencies(config.images, config.downstream)
       ELSE resolve_all_dependencies
    /\ pc' = IF error'.type = "none"
             THEN After("resolve", local_dependencies', remote_dependencies')
             ELSE "failed"
    /\ UNCHANGED <<config, images, graph, at, ops, calls>>

\* An external operation: what it is, on which image, to which registry, and
\* how it stands: "running", or ended "ok" or "failed".
Op(op, name, registry, status) ==
    [op |-> op, name |-> name, registry |-> registry, status |-> status]

Ended(ok) == IF ok THEN "ok" ELSE "failed"

\* The loop over a list goes on with its next element, or the run goes on
\* after the loop.
Onward(phase, list) ==
    IF at[1] < Len(list)
    THEN /\ at' = <<at[1] + 1, 1>>
         /\ pc' = phase
    ELSE /\ at' = <<1, 1>>
         /\ pc' = After(phase, local_dependencies, remote_dependencies)

\* builder.py 147-151, one turn of the loop up to Popen: docker pull is started.
pull_remote_images ==
    /\ pc = "pull_remote_images"
    /\ ops' = Append(ops, Op("pull", NameOf(remote_dependencies[at[1]]), "", "running"))
    /\ pc' = "process_wait"
    /\ UNCHANGED <<config, images, graph, local_dependencies, remote_dependencies,
                   resolved, at, error, calls>>

\* builder.py 152: process.wait(). The pull has ended when it returns; the exit
\* status it returns (ok or not) is dropped, and the loop goes on.
process_wait ==
    /\ pc = "process_wait"
    /\ \E ok \in BOOLEAN : ops' = [ops EXCEPT ![Len(ops)].status = Ended(ok)]
    /\ Onward("pull_remote_images", remote_dependencies)
    /\ UNCHANGED <<config, images, graph, local_dependencies, remote_dependencies,
                   resolved, error, calls>>

\* builder.py 134-140, one turn of the loop. Image.build either builds the
\* image or fails, and its failure ends the run.
build_images ==
    /\ pc = "build_images"
    /\ \E ok \in BOOLEAN :
          /\ ops' = Append(ops, Op("build", NameOf(local_dependencies[at[1]]), "", Ended(ok)))
          /\ IF ok
             THEN /\ Onward("build_images", local_dependencies)
                  /\ UNCHANGED error
             ELSE /\ pc' = "failed"
                  /\ error' = Raised("ExternalOperationFailed", NameOf(local_dependencies[at[1]]))
                  /\ UNCHANGED at
    /\ UNCHANGED <<config, images, graph, local_dependencies, remote_dependencies,
                   resolved, calls>>

\* builder.py 154-161, one turn of the inner loop. Image.push either pushes the
\* image to the registry or fails, and its failure ends the run.
push_images ==
    /\ pc = "push_images"
    /\ \E ok \in BOOLEAN :
          /\ ops' = Append(ops, Op("push", NameOf(local_dependencies[at[1]]),
                                   config.registries[at[2]], Ended(ok)))
          /\ IF ~ok
             THEN /\ pc' = "failed"
                  /\ error' = Raised("ExternalOperationFailed", NameOf(local_dependencies[at[1]]))
                  /\ UNCHANGED at
             ELSE /\ UNCHANGED error
                  /\ IF at[2] < Len(config.registries)
                     THEN /\ at' = <<at[1], at[2] + 1>>
                          /\ pc' = "push_images"
                     ELSE Onward("push_images", local_dependencies)
    /\ UNCHANGED <<config, images, graph, local_dependencies, remote_dependencies,
                   resolved, calls>>

\* builder.py 23-42: Builder.run().
Next ==
    \/ index_images
    \/ build_dependency_graph
    \/ run_resolve
    \/ pull_remote_images
    \/ process_wait
    \/ build_images
    \/ push_images

Spec == Init /\ [][Next]_vars

\* ------------------------------------------------------------------ calls

\* The lists of Nodes of the graph a caller can hand to _split_dependencies.
NodeLists == SeqOf(Range(Values(graph.nodes)), MaxImages)

\* The lists of indexed images a caller can hand to resolve_dependencies.
ImageLists == SeqOf(Range(Keys(images)), MaxSeeds) \ {<< >>}

Called ==
    /\ calls' = calls + 1
    /\ UNCHANGED <<config, images, graph, pc, at, ops>>

\* builder.resolve_all_dependencies(), called on an indexed Builder.
call_resolve_all_dependencies ==
    /\ pc = "resolve" /\ calls < MaxCalls
    /\ resolve_all_dependencies
    /\ Called

\* builder.resolve_dependencies(images, downstream), called on an indexed Builder.
call_resolve_dependencies ==
    /\ pc = "resolve" /\ calls < MaxCalls
    /\ \E imgs \in ImageLists, downstream \in BOOLEAN : resolve_dependencies(imgs, downstream)
    /\ Called

\* builder._split_dependencies(dependencies), called on an indexed Builder.
call_split_dependencies ==
    /\ pc = "resolve" /\ calls < MaxCalls
    /\ \E dependencies \in NodeLists : _split_dependencies(dependencies)
    /\ UNCHANGED <<resolved, error>>
    /\ Called

\* A Builder whose methods are called one by one, the resolving ones any
\* number of times.
NextApi ==
    \/ index_images
    \/ build_dependency_graph
    \/ call_resolve_all_dependencies
    \/ call_resolve_dependencies
    \/ call_split_dependencies

SpecApi == Init /\ [][NextApi]_vars

\* ------------------------------------------------------------------ notions

\* Image a names b as a dependency.
Edge(a, b) == HasKey(images, a) /\ b \in Range(Get(images, a).dependencies)

\* The names reached from the names of S over one or more edges.
RECURSIVE Below(_, _)
Below(S, found) ==
    LET more == {b \in Names : \E a \in S \cup found : Edge(a, b)}
    IN  IF more \subseteq found THEN found ELSE Below(S, found \cup more)

DependenciesOf(S) == Below(S, {})

\* The names from which a name of S is reached over one or more edges.
DependentsOf(S) == {a \in Names : DependenciesOf({a}) \cap S # {}}

OnCycle(n) == n \in DependenciesOf({n})

Acyclic == \A n \in Names : ~OnCycle(n)

\* The names of the graph: the indexed images and what they name.
NodeNames == Range(Keys(images)) \cup DependenciesOf(Range(Keys(images)))

Seeds == Range(config.images)

\* run() has just left its resolving step, all names given being indexed
\* images: no external operation has started yet. (No later step of run()
\* changes what was resolved.)
PastResolve ==
    /\ pc \in {"pull_remote_images", "build_images", "push_images", "done", "failed"}
    /\ ops = << >>
    /\ graph.set
    /\ error.type # "KeyError"

Position(list, x) == CHOOSE i \in 1..Len(list) : list[i] = x

NoRepeat(list) == \A i, j \in 1..Len(list) : list[i] = list[j] => i = j

\* In list, what a name depends on comes before it.
DependenciesFirst(list) ==
    \A i, j \in 1..Len(list) : Edge(list[i], list[j]) => j < i

OpNames(op) == LET only == Filter(ops, LAMBDA o : o.op = op, 1)
               IN  [i \in 1..Len(only) |-> only[i].name]

IsPrefix(s, t) == Len(s) <= Len(t) /\ \A i \in 1..Len(s) : s[i] = t[i]

\* ------------------------------------------------------------------ claims

\* C1: on an acyclic graph, resolving all dependencies emits every node of the
\* graph exactly once, and every dependency before the image that names it.
C1_ResolveAllOrder ==
    (PastResolve /\ Len(config.images) = 0 /\ Acyclic) =>
        /\ error.type # "CycleError"
        /\ NoRepeat(NamesOf(resolved))
        /\ Range(NamesOf(resolved)) = NodeNames
        /\ DependenciesFirst(NamesOf(resolved))

\* All is resolved for two images off one remote base and a chain behind it.
C1_Witness ==
    /\ PastResolve /\ pc # "failed" /\ Len(config.images) = 0 /\ Acyclic
    /\ Len(resolved) = 3
    /\ \E a, b, c \in Names : Edge(a, b) /\ Edge(b, c) /\ a # c

\* C2: on an acyclic graph, without downstream, the result is exactly the
\* images given and what they depend on, so no image that only depends on one.
C2_UpstreamOnly ==
    (PastResolve /\ Len(config.images) > 0 /\ ~config.downstream /\ Acyclic) =>
        /\ error.type # "CycleError"
        /\ Range(NamesOf(resolved)) = Seeds \cup DependenciesOf(Seeds)

\* An image that depends on the one given is left out, its dependency is in.
C2_Witness ==
    /\ PastResolve /\ pc # "failed" /\ Len(config.images) > 0 /\ ~config.downstream /\ Acyclic
    /\ DependenciesOf(Seeds) # {}
    /\ \E n \in DependentsOf(Seeds) : n \notin Range(NamesOf(resolved))

\* C3: on an acyclic graph, with downstream, the result is exactly the images
\* given, what they depend on and what depends on them.
C3_DownstreamExact ==
    (PastResolve /\ Len(config.images) > 0 /\ config.downstream /\ Acyclic) =>
        /\ error.type # "CycleError"
        /\ Range(NamesOf(resolved)) =
              Seeds \cup DependenciesOf(Seeds) \cup DependentsOf(Seeds)

\* C4: on an acyclic graph, whatever images are given and with or without
\* downstream, the result holds no node twice and every dependency that is in
\* it before the image that names it.
C4_SubsetOrder ==
    (PastResolve /\ Len(config.images) > 0 /\ Acyclic) =>
        /\ NoRepeat(NamesOf(resolved))
        /\ DependenciesFirst(NamesOf(resolved))

\* With downstream, a dependent and the dependency it shares with the image given.
C4_Witness ==
    /\ PastResolve /\ pc # "failed" /\ Len(config.images) > 0 /\ config.downstream /\ Acyclic
    /\ Len(resolved) = 3
    /\ DependentsOf(Seeds) # {}

\* C5: a cycle reached from a starting node ends the resolution in a
\* CycleError that names a node of a cycle, and nothing is resolved: both
\* partitions stay empty.
C5_CycleDetected ==
    LET start == IF Len(config.images) = 0 THEN Range(Keys(images)) ELSE Seeds
    IN  (PastResolve /\ \E n \in start \cup DependenciesOf(start) : OnCycle(n)) =>
            /\ pc = "failed"
            /\ error.type = "CycleError"
            /\ OnCycle(error.name)
            /\ resolved = << >>
            /\ local_dependencies = << >>
            /\ remote_dependencies = << >>

\* A cycle of two images, met when all is resolved.
C5_Witness ==
    /\ pc = "failed" /\ error.type = "CycleError"
    /\ \E a, b \in Names : a # b /\ Edge(a, b) /\ Edge(b, a)

\* An image that depends on itself, given by name.
C5_WitnessSelf ==
    /\ pc = "failed" /\ error.type = "CycleError"
    /\ Len(config.images) > 0
    /\ Edge(error.name, error.name)

\* C6: the resolved order is split in two, an indexed image to the local
\* dependencies and any other node to the remote ones, every node to exactly
\* one of them, and each part in the order of the resolved order.
C6_Partition ==
    PastResolve =>
        /\ local_dependencies =
              Filter(resolved, LAMBDA r : HasKey(images, NameOf(r)), 1)
        /\ remote_dependencies =
              Filter(resolved, LAMBDA r : ~HasKey(images, NameOf(r)), 1)
        /\ Range(local_dependencies) \cap Range(remote_dependencies) = {}
        /\ Range(local_dependencies) \cup Range(remote_dependencies) = Range(resolved)

\* Two images off one remote base: two local dependencies, one remote.
C6_Witness ==
    /\ PastResolve
    /\ Len(local_dependencies) = 2
    /\ Len(remote_dependencies) = 1

\* C7: no name is twice among the local dependencies, nor twice among the
\* remote ones, whatever was called before and whatever list was split.
C7_NoDuplicateNames ==
    /\ NoRepeat(NamesOf(local_dependencies))
    /\ NoRepeat(NamesOf(remote_dependencies))

\* C8: the pulls, then the builds, then the pushes: the operations are, one
\* after the other, a pull of every remote dependency, then a build of every
\* local dependency in the order of the local dependencies, then the pushes;
\* and an operation has ended before the next one starts.
C8_Phases ==
    LET pulls == Len(remote_dependencies)
        builds == Len(local_dependencies)
    IN  \A i \in 1..Len(ops) :
            /\ ops[i].status = "running" => i = Len(ops)
            /\ IF i <= pulls
               THEN /\ ops[i].op = "pull"
                    /\ ops[i].name = NameOf(remote_dependencies[i])
               ELSE IF i <= pulls + builds
               THEN /\ ops[i].op = "build"
                    /\ ops[i].name = NameOf(local_dependencies[i - pulls])
               ELSE LET k == i - pulls - builds - 1
                        n == Len(config.registries)
                    IN  /\ ops[i].op = "push"
                        /\ n > 0 /\ k < builds * n
                        /\ ops[i].name = NameOf(local_dependencies[(k \div n) + 1])
                        /\ ops[i].registry = config.registries[(k % n) + 1]

\* A run through all three phases, with more than one build.
C8_Witness ==
    /\ pc = "done"
    /\ Len(OpNames("pull")) >= 1
    /\ Len(OpNames("build")) >= 2
    /\ Len(OpNames("push")) >= 2

\* C9: no external operation is started after one that failed.
C9_FailFast ==
    \A i \in 1..Len(ops) : ops[i].status = "failed" => i = Len(ops)

\* C10: when no image is found, index_images ends the run with SystemExit, the
\* graph is never built and stays unset.
C10_DiscoveryEmpty ==
    (pc # "index_images" /\ Len(images) = 0) =>
        /\ pc = "failed"
        /\ error.type = "SystemExit"
        /\ graph = None

\* The run has ended in index_images.
C10_Witness ==
    /\ pc = "failed"
    /\ error.type = "SystemExit"
    /\ Len(images) = 0

\* run() has not left its resolving step yet.
Resolving == pc \in {"index_images", "build_dependency_graph", "resolve"}

\* C11: a name given that is no indexed image ends the run with the lookup
\* error for that name (KeyError, builder.py 33) before anything is resolved:
\* the Resolver returns nothing and both partitions stay empty.
C11_UnknownSeed ==
    (~Resolving /\ graph.set /\ \E n \in Seeds : ~HasKey(images, n)) =>
        /\ pc = "failed"
        /\ error.type = "KeyError"
        /\ error.name \in Seeds /\ ~HasKey(images, error.name)
        /\ resolved = << >>
        /\ local_dependencies = << >>
        /\ remote_dependencies = << >>

\* The name given is in no Dockerfile and no dependency of one.
C11_Witness ==
    /\ pc = "failed" /\ error.type = "KeyError"
    /\ error.name \notin NodeNames
    /\ Len(images) > 0

\* Two images a and b off the base c, which is not indexed; c is the name
\* given, with downstream.
ExternalSeedScenario ==
    /\ Keys(images) = <<"a", "b">>
    /\ Get(images, "a").dependencies = <<"c">>
    /\ Get(images, "b").dependencies = <<"c">>
    /\ config.images = <<"c">>
    /\ config.downstream

\* C12 as claimed: with the base given and downstream, the run resolves the
\* base first, then the two images; these are the local dependencies, the
\* base the remote one.
C12_ExternalSeedResolves ==
    (~Resolving /\ ExternalSeedScenario) =>
        /\ error.type = "none"
        /\ Len(resolved) = 3
        /\ NameOf(resolved[1]) = "c"
        /\ NamesOf(local_dependencies) = <<"a", "b">>
        /\ NamesOf(remote_dependencies) = <<"c">>

\* C12, amended: a name given that is a node of the graph but no indexed image
\* ends the run with the KeyError for it; nothing is resolved, with or without
\* downstream.
C12_ExternalSeedFails ==
    (~Resolving /\ graph.set /\ \E n \in Seeds : HasKey(graph.nodes, n) /\ ~HasKey(images, n)) =>
        /\ pc = "failed"
        /\ error.type = "KeyError"
        /\ ~HasKey(images, error.name)
        /\ resolved = << >>
        /\ local_dependencies = << >>
        /\ remote_dependencies = << >>
        /\ ops = << >>

\* The base of two images was given, with downstream, and the run has failed.
C12_Witness ==
    /\ ExternalSeedScenario
    /\ pc = "failed"
    /\ error = Raised("KeyError", "c")

\* The names in the order the Dockerfiles mention them: every image in the
\* order of self.images, followed by its dependencies in their order.
RECURSIVE Mentions(_)
Mentions(i) ==
    IF i > Len(images) THEN << >>
    ELSE <<images[i].key>> \o images[i].value.dependencies \o Mentions(i + 1)

\* s without the later occurrences of its elements.
FirstOnly(s) ==
    LET first == {i \in 1..Len(s) : \A j \in 1..(i - 1) : s[j] # s[i]}
        Nth(k) == CHOOSE i \in first : Cardinality({j \in first : j < i}) = k - 1
    IN  [k \in 1..Cardinality(first) |-> s[Nth(k)]]

DeclarationOrder == FirstOnly(Mentions(1))

Min(S) == CHOOSE m \in S : \A n \in S : m <= n

\* The first name in declaration order that is n or depends on n.
FirstRoot(n) ==
    LET order == DeclarationOrder
    IN  Min({k \in 1..Len(order) : n = order[k] \/ n \in DependenciesOf({order[k]})})

\* The first dependency of the image r that is n or depends on n.
FirstEdge(r, n) ==
    LET deps == Get(images, r).dependencies
    IN  Min({i \in 1..Len(deps) : n = deps[i] \/ n \in DependenciesOf({deps[i]})})

\* C14: when all is resolved, ties are broken by declaration order and edge
\* order: of two nodes, the one that the walk over the names in declaration
\* order comes to first is emitted first, and under one name the one under its
\* earlier dependency; a, then b, both off the base c that is not indexed,
\* resolve to c, a, b.
C14_DeclarationOrder ==
    (PastResolve /\ Len(config.images) = 0 /\ Acyclic) =>
        LET names == NamesOf(resolved)
            order == DeclarationOrder
        IN  /\ \A i, j \in 1..Len(names) :
                  LET x == names[i]
                      y == names[j]
                      r == order[FirstRoot(x)]
                  IN  /\ FirstRoot(x) < FirstRoot(y) => i < j
                      /\ (/\ FirstRoot(x) = FirstRoot(y)
                          /\ x # r /\ y # r
                          /\ FirstEdge(r, x) < FirstEdge(r, y)) => i < j
            /\ (/\ Keys(images) = <<"a", "b">>
                /\ Get(images, "a").dependencies = <<"c">>
                /\ Get(images, "b").dependencies = <<"c">>) => names = <<"c", "a", "b">>

\* a, then b, both off c, are resolved.
C14_Witness ==
    /\ PastResolve /\ Len(config.images) = 0
    /\ Keys(images) = <<"a", "b">>
    /\ Get(images, "a").dependencies = <<"c">>
    /\ Get(images, "b").dependencies = <<"c">>
    /\ NamesOf(resolved) = <<"c", "a", "b">>

\* One image off two bases, emitted in the order of its dependencies.
C14_WitnessEdges ==
    /\ PastResolve /\ Len(config.images) = 0
    /\ \E x \in Names : /\ HasKey(images, x)
                        /\ Len(Get(images, x).dependencies) = 2
                        /\ NamesOf(resolved) = Get(images, x).dependencies \o <<x>>

\* The places in ops of the pushes of the image name to registry.
Pushes(name, registry) ==
    {i \in 1..Len(ops) : /\ ops[i].op = "push"
                         /\ ops[i].name = name
                         /\ ops[i].registry = registry}

C15_WitnessNoPush ==
    /\ pc = "done" /\ ~config.push
    /\ Len(config.registries) = 2
    /\ Len(OpNames("build")) >= 1

\* C16: when build_dependency_graph returns (the graph is assigned nowhere
\* else), the graph built holds one Node for every name that is an indexed image
\* or a dependency of one, and no other; every edge of a Node of the graph
\* leads to the Node the graph holds under the name of its target, the edges
\* of an image being its dependencies in their order; and a name that is only
\* a dependency has no edges.
C16_GraphWellFormed ==
    (pc = "resolve" /\ graph.set) =>
        /\ NoRepeat(Keys(graph.nodes))
        /\ Range(Keys(graph.nodes)) = NodeNames
        /\ \A k \in 1..Len(graph.nodes) :
              LET name == graph.nodes[k].key
                  node == graph.objs[graph.nodes[k].value]
              IN  /\ node.name = name
                  /\ \A j \in 1..Len(node.edges) :
                        /\ HasKey(graph.nodes, graph.objs[node.edges[j]].name)
                        /\ Get(graph.nodes, graph.objs[node.edges[j]].name) = node.edges[j]
                  /\ IF HasKey(images, name)
                     THEN NamesOf(node.edges) = Get(images, name).dependencies
                     ELSE node.edges = << >>

\* The image b is named as a dependency of a before its own Dockerfile is
\* visited, and has a dependency of its own.
C16_Witness ==
    /\ pc = "resolve"
    /\ graph.set
    /\ Keys(images) = <<"a", "b">>
    /\ Get(images, "a").dependencies = <<"b">>
    /\ Get(images, "b").dependencies = <<"c">>

\* An operation op on name ended as status before place i of ops.
Before(i, op, name, statuses) ==
    \E j \in 1..(i - 1) :
        ops[j].op = op /\ ops[j].name = name /\ ops[j].status \in statuses

\* Every build comes after the build of every indexed image, and after a pull
\* ended in one of statuses of every other name, that its image depends on.
BuiltAfterDependencies(statuses) ==
    \A i \in 1..Len(ops) :
        ops[i].op = "build" =>
            \A y \in DependenciesOf({ops[i].name}) :
                IF HasKey(images, y)
                THEN Before(i, "build", y, {"ok"})
                ELSE Before(i, "pull", y, statuses)

\* Every local dependency is built once in a run that comes to its end.
BuiltOnce ==
    pc = "done" =>
        \A l \in 1..Len(local_dependencies) :
            Cardinality({i \in 1..Len(ops) :
                ops[i].op = "build" /\ ops[i].name = NameOf(local_dependencies[l])}) = 1

\* C17: on an acyclic graph an image is built only after every indexed image
\* it depends on has been built and every other image it depends on has been
\* pulled, and every local dependency is built exactly once.
C17_BuiltAfterDependencies ==
    (ops # << >> /\ Acyclic) =>
        /\ BuiltAfterDependencies({"ok"})
        /\ BuiltOnce

\* C17 with "has been pulled" read as "its pull has ended", well or not.
C17_BuiltAfterPullsEnded ==
    (ops # << >> /\ Acyclic) =>
        /\ BuiltAfterDependencies({"ok", "failed"})
        /\ BuiltOnce

\* C18: a run that ends in index_images (no image found), at the lookup of the
\* names given (a name that is no indexed image) or in the Resolver (a cycle)
\* has started no pull, no build and no push, and goes no further.
C18_NoOperationAfterEarlyFailure ==
    error.type \in {"SystemExit", "KeyError", "CycleError"} =>
        /\ ops = << >>
        /\ pc = "failed"

\* A run over indexed images, one of them off a remote base, that ended in a
\* cycle found by the Resolver.
C18_Witness ==
    /\ error.type = "CycleError"
    /\ ops = << >>
    /\ \E n \in NodeNames : ~HasKey(images, n)

\* A run that ended at the lookup of a name given, images being indexed.
C18_WitnessLookup ==
    /\ error.type = "KeyError"
    /\ ops = << >>
    /\ Len(images) = 2

====
